---- MODULE Spec2Model ----
(***************************************************************************)
(* Model of generate_commit_message.py: one invocation of main() is a      *)
(* single forward pass over a git repository (HEAD tree, index, working    *)
(* tree), two console prompts, one call to the generative service and one  *)
(* commit.  The tool may be invoked again once an invocation has ended.    *)
(***************************************************************************)
EXTENDS Integers, Sequences, FiniteSets, TLC

\* ------------------------------------------------------------------ bounds
NumFiles == 2
\* Three contents give every pattern of equal and different layers of a file.
MaxContent == 3
MaxTextLen == 2
MaxRuns == 2

\* ------------------------------------------------------------- value sets
Files == 1..NumFiles
\* A file's content in one layer of the repository: 0 is "no such file".
Content == 0..MaxContent
Trees == [Files -> Content]

\* Characters of a service response: whitespace, and one other character.
Whitespace == {" "}
Chars == Whitespace \cup {"a"}
Texts == UNION {[1..n -> Chars] : n \in 0..MaxTextLen}

\* Lines the operator can type at a prompt.
Answers == {<<"y">>, <<"Y">>, <<"n">>}

\* Values of GEMINI_API_KEY in the process environment or in the .env file.
Unset == "<unset>"
KeyValues == {Unset, "", "k"}
NotRead == "<not read>"
NoInput == <<"<no input>">>
NoText == <<"<none>">>

VARIABLES
    inRepo,           \* the working directory is inside a git repository
    head,             \* tree of the last commit
    index,            \* the staging area
    wt,               \* the working tree
    envKey,           \* GEMINI_API_KEY in os.environ
    fileKey,          \* GEMINI_API_KEY in the .env file
    pc,               \* position of main()
    approval_needed,  \* args.approval_needed
    modified_files,
    untracked_files,
    add_files,
    staged_diff,
    api_key,
    response_text,    \* response.text, before strip()
    commit_message,
    approval,
    exit_status,      \* -1 while the process runs
    last_output,      \* the last line printed
    \* history of the current invocation
    run,
    trace,            \* phases entered, in order
    outcome,
    gen_calls,        \* calls of model.generate_content
    prompt_diff,      \* the diff embedded in the prompt sent
    commits,          \* commits created
    committed,        \* <<message, tree>> of the commit created
    added,            \* files passed to repo.git.add
    commit_calls,     \* calls of repo.index.commit
    head0, index0,    \* HEAD and the index when the invocation started
    indexAtDiff,      \* the index when get_staged_diff read it
    stage_input, approval_input,  \* the lines typed, before lower()
    prev              \* outcome of the previous invocation

repoVars == <<inRepo, head, index, wt>>
envVars == <<envKey, fileKey>>
localVars == <<approval_needed, modified_files, untracked_files, add_files,
               staged_diff, api_key, response_text, commit_message, approval>>
histVars == <<run, trace, outcome, gen_calls, prompt_diff, commit_calls,
              commits, committed, added, head0, index0, indexAtDiff,
              stage_input, approval_input, prev>>
vars == <<repoVars, envVars, pc, localVars, exit_status, last_output, histVars>>

\* ------------------------------------------------------- pure operations
Max(a, b) == IF a >= b THEN a ELSE b

\* str.lower() on one character, and on a line.
LowerChar(c) ==
    CASE c = "Y" -> "y"
      [] c = "N" -> "n"
      [] OTHER -> c
Lower(s) == [i \in 1..Len(s) |-> LowerChar(s[i])]

\* str.strip(): drop leading, then trailing whitespace.
RECURSIVE LStrip(_)
LStrip(s) ==
    IF s # <<>> /\ Head(s) \in Whitespace THEN LStrip(Tail(s)) ELSE s
RECURSIVE RStrip(_)
RStrip(s) ==
    IF s # <<>> /\ s[Len(s)] \in Whitespace
    THEN RStrip(SubSeq(s, 1, Len(s) - 1)) ELSE s
\* lstrip() in place of strip().
MutStripLeftOnly(s) == LStrip(s)
Strip(s) == RStrip(LStrip(s))

\* repo.index.diff(None): paths in the index whose working-tree file differs.
IndexDiffNone(idx, w) == {f \in Files : idx[f] # 0 /\ w[f] # idx[f]}
\* repo.untracked_files: working-tree files the index does not know.
UntrackedFiles(idx, w) == {f \in Files : idx[f] = 0 /\ w[f] # 0}
\* repo.git.add(paths): the index takes the working-tree content of the paths.
GitAdd(idx, w, paths) == [f \in Files |-> IF f \in paths THEN w[f] ELSE idx[f]]
\* repo.git.diff('--staged'): one hunk per path whose index entry differs from
\* HEAD; the empty set is the empty string.
DiffStaged(h, idx) ==
    {<<f, h[f], idx[f]>> : f \in {g \in Files : h[g] # idx[g]}}
\* load_dotenv() does not override the environment; os.getenv reads the result.
Getenv(env, file) == IF env # Unset THEN env ELSE file

\* ------------------------------------------------------------------- Init
\* Contents are only ever compared for equality, so a file's three layers
\* are numbered in order of first use (HEAD, index, working tree).
Canonical(h, i, w) == h <= 1 /\ i <= h + 1 /\ w <= Max(h, i) + 1
\* No step tells one path from another, so the files are listed in the order
\* of their states.
Code(h, i, w) == (h * (MaxContent + 1) + i) * (MaxContent + 1) + w
Sorted(h, i, w) ==
    \A f \in 1..(NumFiles - 1) :
        Code(h[f], i[f], w[f]) <= Code(h[f + 1], i[f + 1], w[f + 1])

Init ==
    /\ inRepo \in BOOLEAN
    /\ head \in Trees
    /\ index \in Trees
    /\ wt \in Trees
    /\ \A f \in Files : Canonical(head[f], index[f], wt[f])
    /\ Sorted(head, index, wt)
    /\ ~inRepo => \A f \in Files : head[f] = 0 /\ index[f] = 0 /\ wt[f] = 0
    /\ envKey \in KeyValues
    /\ fileKey \in KeyValues \ {""}
    /\ pc = "open"
    /\ approval_needed \in BOOLEAN
    /\ modified_files = {}
    /\ untracked_files = {}
    /\ add_files = NoInput
    /\ staged_diff = {}
    /\ api_key = NotRead
    /\ response_text = NoText
    /\ commit_message = NoText
    /\ approval = NoInput
    /\ exit_status = -1
    /\ last_output = ""
    /\ run = 1
    /\ trace = <<"Start">>
    /\ outcome = "Running"
    /\ gen_calls = 0
    /\ prompt_diff = {}
    /\ commit_calls = 0
    /\ commits = 0
    /\ committed = <<>>
    /\ added = {}
    /\ head0 = head
    /\ index0 = index
    /\ indexAtDiff = index
    /\ stage_input = NoInput
    /\ approval_input = NoInput
    /\ prev = <<"None", -1>>

\* sys.exit(code), falling off the end of main(), or an uncaught exception:
\* the process ends with `code` after printing `line`.
Exit(tr, code, result, line) ==
    /\ pc' = "done"
    /\ exit_status' = code
    /\ outcome' = result
    /\ trace' = Append(tr, result)
    /\ last_output' = line

MsgNoChanges == "No changes to commit. All tracked files are up to date."
MsgAborted == "Commit aborted."
MsgCommitted == "Changes committed successfully!"

\* What each step leaves alone.
runHist == <<run, head0, index0, prev>>
callHist == <<gen_calls, prompt_diff, commit_calls, commits, committed>>
OpenFrame ==
    <<repoVars, envVars, localVars, runHist, callHist, added, indexAtDiff,
      stage_input, approval_input>>
StageFrame ==
    <<inRepo, head, wt, envVars, approval_needed, untracked_files, add_files,
      staged_diff, api_key, response_text, commit_message, approval,
      exit_status, trace, outcome, runHist, callHist, indexAtDiff,
      stage_input, approval_input>>
UntrackedFrame ==
    <<inRepo, head, wt, envVars, approval_needed, modified_files, staged_diff,
      api_key, response_text, commit_message, approval, runHist, callHist,
      indexAtDiff, approval_input>>
DiffFrame ==
    <<inRepo, head, wt, envVars, approval_needed, modified_files,
      untracked_files, add_files, api_key, response_text, commit_message,
      approval, runHist, callHist, added, stage_input, approval_input>>
KeyFrame ==
    <<inRepo, head, wt, envVars, approval_needed, modified_files,
      untracked_files, add_files, staged_diff, response_text, commit_message,
      approval, runHist, callHist, added, indexAtDiff, stage_input,
      approval_input>>
GenerateFrame ==
    <<repoVars, envVars, approval_needed, modified_files, untracked_files,
      add_files, staged_diff, api_key, approval, runHist, commit_calls,
      commits, committed, added, indexAtDiff, stage_input, approval_input>>
ApprovalFrame ==
    <<repoVars, envVars, approval_needed, modified_files, untracked_files,
      add_files, staged_diff, api_key, response_text, commit_message,
      runHist, callHist, added, indexAtDiff, stage_input>>
CommitFrame ==
    <<inRepo, wt, envVars, localVars, runHist, gen_calls, prompt_diff, added,
      indexAtDiff, stage_input, approval_input>>

\* ---------------------------------------------------------------- actions
\* git.Repo(search_parent_directories=True)
OpenRepo ==
    /\ pc = "open"
    /\ IF inRepo
       THEN /\ pc' = "stage"
            /\ trace' = Append(trace, "RepoOpened")
            /\ UNCHANGED <<exit_status, outcome, last_output>>
       ELSE Exit(trace, 1, "ExitedEarly",
                 "Error: This script must be run inside a Git repository.")
    /\ UNCHANGED OpenFrame

MutStageFirstOnly ==
    /\ pc = "stage"
    /\ modified_files' = IndexDiffNone(index, wt)
    /\ IF modified_files' # {}
       THEN LET first == CHOOSE f \in modified_files' :
                             \A g \in modified_files' : f <= g
            IN  /\ index' = GitAdd(index, wt, {first})
                /\ added' = added \cup {first}
                /\ last_output' = "Modified files staged."
       ELSE UNCHANGED <<index, added, last_output>>
    /\ pc' = "untracked"
    /\ UNCHANGED StageFrame

\* Modified tracked files are staged without asking.
StageModified ==
    /\ pc = "stage"
    /\ modified_files' = IndexDiffNone(index, wt)
    /\ IF modified_files' # {}
       THEN /\ index' = GitAdd(index, wt, modified_files')
            /\ added' = added \cup modified_files'
            /\ last_output' = "Modified files staged."
       ELSE UNCHANGED <<index, added, last_output>>
    /\ pc' = "untracked"
    /\ UNCHANGED StageFrame

MutCheckUntrackedExitOnDecline ==
    /\ pc = "untracked"
    /\ untracked_files' = UntrackedFiles(index, wt)
    /\ IF untracked_files' # {}
       THEN \E line \in Answers :
            /\ stage_input' = line
            /\ add_files' = Lower(line)
            /\ IF add_files' = <<"y">>
               THEN /\ index' = GitAdd(index, wt, untracked_files')
                    /\ added' = added \cup untracked_files'
                    /\ last_output' = "New files added to the staging area."
                    /\ pc' = "diff"
                    /\ trace' = Append(trace, "FilesStaged")
                    /\ UNCHANGED <<exit_status, outcome>>
               ELSE /\ Exit(Append(trace, "FilesStaged"), 1, "ExitedEarly",
                            "Untracked files were not added.")
                    /\ UNCHANGED <<index, added>>
       ELSE /\ pc' = "diff"
            /\ trace' = Append(trace, "FilesStaged")
            /\ UNCHANGED <<stage_input, add_files, index, added, last_output,
                           exit_status, outcome>>
    /\ UNCHANGED UntrackedFrame

\* Untracked files are staged only when the operator types y.
CheckUntracked ==
    /\ pc = "untracked"
    /\ untracked_files' = UntrackedFiles(index, wt)
    /\ IF untracked_files' # {}
       THEN \E line \in Answers :
            /\ stage_input' = line
            /\ add_files' = Lower(line)
            /\ IF add_files' = <<"y">>
               THEN /\ index' = GitAdd(index, wt, untracked_files')
                    /\ added' = added \cup untracked_files'
                    /\ last_output' = "New files added to the staging area."
               ELSE /\ last_output' = "Untracked files were not added."
                    /\ UNCHANGED <<index, added>>
       ELSE UNCHANGED <<stage_input, add_files, index, added, last_output>>
    /\ pc' = "diff"
    /\ trace' = Append(trace, "FilesStaged")
    /\ UNCHANGED <<exit_status, outcome>>
    /\ UNCHANGED UntrackedFrame

MutGetStagedDiffNoGate ==
    /\ pc = "diff"
    /\ staged_diff' = DiffStaged(head, index)
    /\ indexAtDiff' = index
    /\ pc' = "key"
    /\ trace' = Append(trace, "DiffObtained")
    /\ last_output' = "Generating commit message with Gemini..."
    /\ UNCHANGED <<exit_status, outcome, index>>
    /\ UNCHANGED DiffFrame

\* The diff is taken of the index as it was before the untracked files
\* were added.
MutGetStagedDiffStale ==
    /\ pc = "diff"
    /\ indexAtDiff' = GitAdd(index0, wt, modified_files)
    /\ staged_diff' = DiffStaged(head, indexAtDiff')
    /\ IF staged_diff' = {}
       THEN Exit(trace, 0, "ExitedEarly", MsgNoChanges)
       ELSE /\ pc' = "key"
            /\ trace' = Append(trace, "DiffObtained")
            /\ last_output' = "Generating commit message with Gemini..."
            /\ UNCHANGED <<exit_status, outcome>>
    /\ UNCHANGED <<index, DiffFrame>>

\* get_staged_diff(repo): an empty diff ends the run with status 0.
get_staged_diff ==
    /\ pc = "diff"
    /\ staged_diff' = DiffStaged(head, index)
    /\ indexAtDiff' = index
    /\ IF staged_diff' = {}
       THEN Exit(trace, 0, "ExitedEarly", MsgNoChanges)
       ELSE /\ pc' = "key"
            /\ trace' = Append(trace, "DiffObtained")
            /\ last_output' = "Generating commit message with Gemini..."
            /\ UNCHANGED <<exit_status, outcome>>
    /\ UNCHANGED <<index, DiffFrame>>

MutLoadKeyNoCheck ==
    /\ pc = "key"
    /\ api_key' = Getenv(envKey, fileKey)
    /\ pc' = "generate"
    /\ UNCHANGED <<exit_status, outcome, trace, last_output, index>>
    /\ UNCHANGED KeyFrame

\* A missing key resets the index before exiting.
MutLoadKeyRollback ==
    /\ pc = "key"
    /\ api_key' = Getenv(envKey, fileKey)
    /\ IF api_key' \in {Unset, ""}
       THEN /\ Exit(trace, 1, "ExitedEarly", "Error: GEMINI_API_KEY not found.")
            /\ index' = head
       ELSE /\ pc' = "generate"
            /\ UNCHANGED <<exit_status, outcome, trace, last_output, index>>
    /\ UNCHANGED KeyFrame

\* generate_commit_message, first half: load_dotenv() and os.getenv.
LoadKey ==
    /\ pc = "key"
    /\ api_key' = Getenv(envKey, fileKey)
    /\ IF api_key' \in {Unset, ""}
       THEN Exit(trace, 1, "ExitedEarly", "Error: GEMINI_API_KEY not found.")
       ELSE /\ pc' = "generate"
            /\ UNCHANGED <<exit_status, outcome, trace, last_output>>
    /\ UNCHANGED <<index, KeyFrame>>

\* What model.generate_content(prompt) and response.text can do.
Replies ==
    {<<"call raises">>, <<"text raises">>} \cup {<<"text", t>> : t \in Texts}

\* A failure of the call is swallowed and an empty message returned.
MutGenerateSwallowsError ==
    /\ pc = "generate"
    /\ gen_calls' = gen_calls + 1
    /\ prompt_diff' = staged_diff
    /\ \E reply \in Replies :
         /\ response_text' = IF reply[1] = "text" THEN reply[2] ELSE NoText
         /\ commit_message' = IF reply[1] = "text" THEN Strip(reply[2]) ELSE <<>>
         /\ trace' = Append(trace, "MessageGenerated")
         /\ last_output' = "Generated Commit Message:"
         /\ pc' = IF approval_needed THEN "approve" ELSE "commit"
         /\ UNCHANGED <<exit_status, outcome>>
    /\ UNCHANGED GenerateFrame

\* generate_commit_message, second half: the one call to the service.
generate_commit_message ==
    /\ pc = "generate"
    /\ gen_calls' = gen_calls + 1
    /\ prompt_diff' = staged_diff
    /\ \E reply \in Replies :
         IF reply[1] = "text"
         THEN /\ response_text' = reply[2]
              /\ commit_message' = Strip(reply[2])
              /\ trace' = Append(trace, "MessageGenerated")
              /\ last_output' = "Generated Commit Message:"
              /\ pc' = IF approval_needed THEN "approve" ELSE "commit"
              /\ UNCHANGED <<exit_status, outcome>>
         ELSE /\ Exit(trace, 1, "ExitedEarly",
                      "Error generating commit message")
              /\ UNCHANGED <<response_text, commit_message>>
    /\ UNCHANGED GenerateFrame

\* The answer is compared without lower().
MutAskApprovalNoLower ==
    /\ pc = "approve"
    /\ \E line \in Answers :
         /\ approval_input' = line
         /\ approval' = line
         /\ IF approval' = <<"y">>
            THEN /\ pc' = "commit"
                 /\ trace' = Append(trace, "ApprovalPrompt")
                 /\ UNCHANGED <<exit_status, outcome, last_output>>
            ELSE Exit(Append(trace, "ApprovalPrompt"), 0, "Aborted", MsgAborted)
    /\ UNCHANGED ApprovalFrame

\* With -p: the final confirmation prompt.
AskApproval ==
    /\ pc = "approve"
    /\ \E line \in Answers :
         /\ approval_input' = line
         /\ approval' = Lower(line)
         /\ IF approval' = <<"y">>
            THEN /\ pc' = "commit"
                 /\ trace' = Append(trace, "ApprovalPrompt")
                 /\ UNCHANGED <<exit_status, outcome, last_output>>
            ELSE Exit(Append(trace, "ApprovalPrompt"), 0, "Aborted", MsgAborted)
    /\ UNCHANGED ApprovalFrame

\* The else of the approval branch is missing: an approved run commits twice.
MutCommitMissingElse ==
    /\ pc = "commit"
    /\ commit_calls' = commit_calls + (IF approval_needed THEN 2 ELSE 1)
    /\ head' = index
    /\ commits' = commits + (IF approval_needed THEN 2 ELSE 1)
    /\ committed' = <<commit_message, index>>
    /\ Exit(trace, 0, "Committed", MsgCommitted)
    /\ UNCHANGED <<index, CommitFrame>>

\* repo.index.commit(commit_message): the index becomes the new HEAD tree, or
\* the library raises (a failing hook, a locked index); main() does not catch
\* it, so the exception ends the process with a traceback and status 1.
Commit ==
    /\ pc = "commit"
    /\ commit_calls' = commit_calls + 1
    /\ \E raised \in BOOLEAN :
         IF raised
         THEN /\ Exit(trace, 1, "ExitedEarly",
                      "Traceback (most recent call last):")
              /\ UNCHANGED <<head, commits, committed>>
         ELSE /\ head' = index
              /\ commits' = commits + 1
              /\ committed' = <<commit_message, index>>
              /\ Exit(trace, 0, "Committed", MsgCommitted)
    /\ UNCHANGED <<index, CommitFrame>>

\* The tool is invoked again on the repository as the last invocation left it.
StartRun ==
    /\ pc = "done"
    /\ run < MaxRuns
    /\ run' = run + 1
    /\ prev' = <<outcome, exit_status>>
    /\ pc' = "open"
    /\ approval_needed' \in BOOLEAN
    /\ modified_files' = {}
    /\ untracked_files' = {}
    /\ add_files' = NoInput
    /\ staged_diff' = {}
    /\ api_key' = NotRead
    /\ response_text' = NoText
    /\ commit_message' = NoText
    /\ approval' = NoInput
    /\ exit_status' = -1
    /\ last_output' = ""
    /\ trace' = <<"Start">>
    /\ outcome' = "Running"
    /\ gen_calls' = 0
    /\ prompt_diff' = {}
    /\ commit_calls' = 0
    /\ commits' = 0
    /\ committed' = <<>>
    /\ added' = {}
    /\ head0' = head
    /\ index0' = index
    /\ indexAtDiff' = index
    /\ stage_input' = NoInput
    /\ approval_input' = NoInput
    /\ UNCHANGED <<repoVars, envVars>>

\* One step of main().
Step ==
    \/ OpenRepo
    \/ StageModified
    \/ CheckUntracked
    \/ get_staged_diff
    \/ LoadKey
    \/ generate_commit_message
    \/ AskApproval
    \/ Commit

Next == Step \/ StartRun

Spec == Init /\ [][Next]_vars
\* main() is sequential: while a run is not over, its next step is taken.
FairSpec == Spec /\ WF_vars(Step)

\* ------------------------------------------------------------ vocabulary
Done == pc = "done"
Entered(phase) == \E i \in DOMAIN trace : trace[i] = phase
\* The lines that equal "y" when case is ignored.
YesLines == {<<"y">>, <<"Y">>}
\* get_staged_diff has read the staged diff in this run.
DiffRead == Entered("FilesStaged") /\ pc # "diff"
\* The 'nothing to commit' outcome.
NoChanges ==
    Done /\ outcome = "ExitedEarly" /\ exit_status = 0
         /\ last_output = MsgNoChanges
\* The call to the service returned a text.
Generated == response_text # NoText
\* repo.index.commit was called and raised.
CommitRaised == commit_calls > commits
\* m is t without its leading and trailing whitespace.
IsTrimOf(m, t) ==
    \E i \in 1..(Len(t) + 1), j \in 0..Len(t) :
        /\ m = SubSeq(t, i, j)
        /\ \A k \in 1..Len(t) : (k < i \/ k > j) => t[k] \in Whitespace
        /\ m # <<>> => m[1] \notin Whitespace /\ m[Len(m)] \notin Whitespace
\* What the run found when it started.
modified0 == IndexDiffNone(index0, wt)
untracked0 == UntrackedFiles(index0, wt)
accepted0 == IF stage_input \in YesLines THEN untracked0 ELSE {}
\* The previous run left nothing staged: it committed, or found no changes.
PrevClean == prev[1] = "Committed" \/ prev = <<"ExitedEarly", 0>>
Rank(phase) ==
    CASE phase = "Start" -> 0
      [] phase = "RepoOpened" -> 1
      [] phase = "FilesStaged" -> 2
      [] phase = "DiffObtained" -> 3
      [] phase = "MessageGenerated" -> 4
      [] phase = "ApprovalPrompt" -> 5
      [] phase \in {"Committed", "Aborted", "ExitedEarly"} -> 6

\* ----------------------------------------------------------------- claims
\* C1 as stated: every run without the approval flag in which the generation
\* call returned a text ends with exactly one commit, whose message is the
\* text without its leading and trailing whitespace.
C1_OneCommitWhenGenerated ==
    (Done /\ ~approval_needed /\ Generated) =>
        /\ commits = 1
        /\ IsTrimOf(committed[1], response_text)

\* C1 amended: such a run calls repo.index.commit exactly once; unless that
\* call raises, exactly one commit is produced and its message is the text
\* without its leading and trailing whitespace (an empty message included);
\* if the call raises no commit is produced and the run ends with status 1.
C1_OneCommitUnlessCommitRaises ==
    (Done /\ ~approval_needed /\ Generated) =>
        /\ commit_calls = 1
        /\ commits <= 1
        /\ ~CommitRaised =>
              /\ commits = 1
              /\ outcome = "Committed"
              /\ IsTrimOf(committed[1], response_text)
        /\ CommitRaised => commits = 0 /\ exit_status = 1 /\ head = head0

C1_Witness ==
    /\ Done /\ ~approval_needed /\ commits = 1
    /\ response_text = <<" ", "a">>
    /\ committed[1] = <<"a">>

\* C2: when the staged diff read after staging is empty the run ends with
\* status 0 with no generation call, no read of the API key and no commit;
\* the generation call is only made with a non-empty diff.
C2_EmptyDiffGatesGeneration ==
    /\ (DiffRead /\ indexAtDiff = head0) =>
          /\ staged_diff = {}
          /\ Done /\ exit_status = 0
          /\ gen_calls = 0 /\ api_key = NotRead
          /\ commit_calls = 0 /\ commits = 0 /\ head = head0
    /\ gen_calls > 0 =>
          /\ prompt_diff # {}
          /\ prompt_diff = DiffStaged(head0, indexAtDiff)

C2_Witness ==
    /\ DiffRead /\ staged_diff = {} /\ Done
    /\ untracked_files # {} /\ envKey = "k"

\* C3 as stated: with the approval flag, once the operator has answered the
\* final prompt, a commit is made iff the answer equals "y" ignoring case;
\* any other answer gives no commit, an untouched index and "Commit aborted."
\* as the last output.
C3_CommitIffApproved ==
    (Done /\ approval_needed /\ approval_input # NoInput) =>
        /\ commits = 1 <=> approval_input \in YesLines
        /\ approval_input \notin YesLines =>
              /\ commits = 0 /\ head = head0
              /\ index = indexAtDiff
              /\ last_output = MsgAborted

\* C3 amended: repo.index.commit is called iff the answer equals "y" ignoring
\* case, and a commit is made iff it is called and does not raise; any other
\* answer gives no commit, an untouched index and "Commit aborted." as the
\* last output.
C3_CommitCalledIffApproved ==
    (Done /\ approval_needed /\ approval_input # NoInput) =>
        /\ commit_calls = 1 <=> approval_input \in YesLines
        /\ commit_calls <= 1
        /\ commits = 1 <=> (approval_input \in YesLines /\ ~CommitRaised)
        /\ commits <= 1
        /\ approval_input \notin YesLines =>
              /\ commits = 0 /\ head = head0
              /\ index = indexAtDiff
              /\ outcome = "Aborted"
              /\ last_output = MsgAborted

C3_Witness ==
    /\ Done /\ approval_needed /\ outcome = "Aborted"
    /\ approval_input = <<"n">>
    /\ added # {}

KeyAbsent == envKey = Unset /\ fileKey = Unset

\* C4 as stated: a run inside a repository with GEMINI_API_KEY absent ends
\* with status 1, without a generation call and without a commit, whatever
\* the working tree and the operator's answers.
C4_AbsentKeyIsFatal ==
    (Done /\ inRepo /\ KeyAbsent) =>
        exit_status = 1 /\ gen_calls = 0 /\ commits = 0

\* C4 amended: such a run makes no generation call and no commit; it ends
\* with status 1 when the staged diff read after staging is non-empty, and
\* with status 0, the key never read, when that diff is empty.
C4_AbsentKeyIsFatalOnceDiffNonEmpty ==
    (Done /\ inRepo /\ KeyAbsent) =>
        /\ gen_calls = 0 /\ commit_calls = 0 /\ commits = 0
        /\ indexAtDiff # head0 => exit_status = 1 /\ api_key = Unset
        /\ indexAtDiff = head0 => exit_status = 0 /\ api_key = NotRead

C4_Witness ==
    /\ Done /\ inRepo /\ KeyAbsent /\ exit_status = 1
    /\ stage_input = <<"y">> /\ modified_files # {}

\* C5: when the call to the service fails (the call or reading its text
\* raises) the run ends with status 1, without a commit, the service called
\* exactly once; no run calls the service more than once.
C5_GenerationFailureIsFatal ==
    /\ gen_calls <= 1
    /\ (gen_calls >= 1 /\ ~Generated) =>
          /\ Done /\ exit_status = 1
          /\ gen_calls = 1
          /\ commit_calls = 0 /\ commits = 0 /\ head = head0

C5_Witness ==
    /\ Done /\ gen_calls = 1 /\ ~Generated
    /\ exit_status = 1 /\ added # {}

\* C6: after the staging step every file that was modified when the run
\* started has been staged, with no prompt for it; the untracked files have
\* been staged iff the answer to the staging prompt equals "y" ignoring case,
\* otherwise all stay untracked; the run goes on to read the diff, and a
\* decline with nothing else staged ends in the 'no changes' outcome.
C6_StagingPolicy ==
    Entered("FilesStaged") =>
        /\ modified_files = modified0
        /\ untracked_files = untracked0
        /\ \A f \in modified0 : f \in added /\ index[f] = wt[f]
        /\ untracked0 = {} => stage_input = NoInput
        /\ untracked0 # {} =>
              /\ stage_input \in Answers
              /\ (\A f \in untracked0 : f \in added /\ index[f] = wt[f])
                     <=> stage_input \in YesLines
              /\ stage_input \notin YesLines =>
                     \A f \in untracked0 : f \notin added /\ index[f] = 0
        /\ added = modified0 \cup accepted0
        /\ trace[Len(trace)] = "FilesStaged" => pc = "diff" /\ exit_status = -1
        /\ (Done /\ stage_input \in Answers \ YesLines
                 /\ GitAdd(index0, wt, modified0) = head0) => NoChanges

C6_Witness ==
    /\ Entered("FilesStaged")
    /\ modified0 # {} /\ untracked0 # {}
    /\ stage_input = <<"n">>
    /\ Entered("DiffObtained")

\* C7 as stated: whatever the first run did, a second run on the unchanged
\* repository ends in the 'nothing to commit' outcome, having staged nothing,
\* made no generation call and created no commit.
C7_SecondRunIsNoop ==
    (run >= 2 /\ inRepo /\ Done) =>
        /\ NoChanges
        /\ added = {} /\ index = index0
        /\ gen_calls = 0 /\ commits = 0

\* C7 amended: when the previous run committed or found nothing to commit,
\* the next run on the unchanged repository finds no modified file, and,
\* unless the operator accepts untracked files at its staging prompt, it
\* ends in the 'nothing to commit' outcome having staged nothing, made no
\* generation call and created no commit.
C7_SecondRunIsNoopAfterCleanRun ==
    (run >= 2 /\ inRepo /\ PrevClean) =>
        /\ modified0 = {} /\ modified_files = {}
        /\ index0 = head0
        /\ (Done /\ stage_input \notin YesLines) =>
              /\ NoChanges
              /\ added = {} /\ index = index0 /\ head = head0
              /\ gen_calls = 0 /\ commit_calls = 0 /\ commits = 0

C7_Witness ==
    /\ run = 2 /\ prev = <<"Committed", 0>>
    /\ NoChanges /\ untracked_files # {}

C10_CommitsWhatWasDiffed ==
    /\ DiffRead => index = indexAtDiff /\ added = modified0 \cup accepted0
    /\ commits >= 1 =>
          /\ committed[2] = indexAtDiff
          /\ head = indexAtDiff
          /\ prompt_diff = DiffStaged(head0, committed[2])
          /\ committed[2] = GitAdd(index0, wt, modified0 \cup accepted0)
          /\ \A f \in Files \ (modified0 \cup accepted0) :
                committed[2][f] = index0[f]

C10_Witness ==
    /\ commits = 1
    /\ stage_input = <<"Y">>
    /\ \E f \in Files \ added : index0[f] # head0[f]

\* C9: a run is one forward pass: the phases are entered in order, each at
\* most once; a commit follows a generated message, which follows a non-empty
\* diff, which follows the staging step; at most one commit per run; and
\* every run ends, in exactly one of Committed, Aborted and ExitedEarly.
C9_Order ==
    /\ trace[1] = "Start"
    /\ \A i \in 1..(Len(trace) - 1) : Rank(trace[i]) < Rank(trace[i + 1])
    /\ commits <= 1 /\ commit_calls <= 1
    /\ commit_calls >= 1 => Entered("MessageGenerated") /\ Generated
    /\ Entered("MessageGenerated") =>
          Entered("DiffObtained") /\ staged_diff # {} /\ gen_calls = 1
    /\ Entered("DiffObtained") => Entered("FilesStaged")
    /\ Entered("FilesStaged") => Entered("RepoOpened")
    /\ Entered("ApprovalPrompt") => Entered("MessageGenerated")
    /\ Done <=> outcome \in {"Committed", "Aborted", "ExitedEarly"}
    /\ Done <=> Rank(trace[Len(trace)]) = 6
    /\ Done => trace[Len(trace)] = outcome
    /\ outcome = "Committed" <=> commits = 1
    /\ ~Done => outcome = "Running" /\ exit_status = -1

C9_SinglePass ==
    /\ []C9_Order
    /\ ~Done ~> Done

C9_Witness ==
    trace = <<"Start", "RepoOpened", "FilesStaged", "DiffObtained",
              "MessageGenerated", "ApprovalPrompt", "Committed">>
====
